---- MODULE Spec2Model ----
(***************************************************************************)
(* The WebTerm chat widget (webterm.js): transcript rendering, history     *)
(* polling, the /chat/send and /chat/audio paths and the directive         *)
(* dispatcher, as a state machine whose steps are the widget's event       *)
(* handlers and continuations.                                             *)
(*                                                                         *)
(* A text is a sequence of characters.  The model's characters are words   *)
(* that the code treats as units (a whole URL, a whole selector), plus the *)
(* blank " ", which is what String.prototype.trim removes.                 *)
(***************************************************************************)
EXTENDS Naturals, Sequences, FiniteSets

-----------------------------------------------------------------------------
(* Bounds of the model *)

\* longest history the backend keeps
MaxHist == 2
\* /chat/send requests in flight at once
MaxSends == 2
\* /chat/history responses in flight at once
MaxPolls == 1
MaxRace == 2
\* activation retry chains pending at once
MaxChains == 2
\* bubbles in the visible list
MaxBubbles == 3
\* times the backend issues one directive
MaxIssue == 1
\* /chat/audio requests in flight at once
MaxUploads == 1
\* getUserMedia requests pending at once
MaxStarts == 2
\* capture streams the device hands out in one page load
MaxStreams == 2

\* clickElementWithFallback(selector, retries = 5)
DEFAULT_RETRIES == 5
\* the delay of a retry, in milliseconds
RETRY_DELAY == 200

-----------------------------------------------------------------------------
(* Texts *)

BLANK == " "
EMPTY == << >>

\* the page the widget is first loaded on, and the backend's navigation target
PAGE0 == <<"https://site.com/">>
URL1 == <<"https://site.com/contact">>
URL2 == <<"https://site.com/about">>
\* a URL that does not begin with http(s)://
RELURL == <<"/cart">>
\* a selector of valid syntax, and one of invalid syntax
SEL1 == <<"#buy">>
BADSEL == <<"#(">>

USERTEXT == <<"hi">>
\* what the backend hears in a clip
TRANSCRIPT == <<"hours?">>
REPLYTEXT == <<"9-5">>

RECURSIVE TrimStart(_)
TrimStart(s) ==
    IF s # EMPTY /\ Head(s) = BLANK THEN TrimStart(Tail(s)) ELSE s

RECURSIVE TrimEnd(_)
TrimEnd(s) ==
    IF s # EMPTY /\ s[Len(s)] = BLANK THEN TrimEnd(SubSeq(s, 1, Len(s) - 1)) ELSE s

\* String.prototype.trim
Trim(s) == TrimEnd(TrimStart(s))

\* what the user may have typed when the form is submitted
InputTexts == { EMPTY, <<BLANK>>, USERTEXT, <<BLANK>> \o USERTEXT \o <<BLANK>> }

-----------------------------------------------------------------------------
(* Messages and their serialized form *)

Msg(role, text, link, button) ==
    [role |-> role, text |-> text, link |-> link, button |-> button]

UserMsg(text) == Msg("user", text, FALSE, FALSE)

\* what the backend may answer with: plain text, a navigate directive (here
\* padded, as trim allows), an activate directive, an activate directive whose
\* selector does not parse
Replies ==
    { Msg("assistant", REPLYTEXT, FALSE, FALSE),
      Msg("assistant", <<BLANK>> \o URL1, TRUE, FALSE),
      Msg("assistant", SEL1, FALSE, TRUE),
      Msg("assistant", BADSEL, FALSE, TRUE) }

IsDirective(m) == m.role # "user" /\ (m.link \/ m.button)

Bool2Json(b) == IF b THEN "true" ELSE "false"

\* JSON.stringify of one history entry
StringifyMsg(m) ==
    <<"{", "role:", m.role, "text:">> \o m.text
        \o <<"link:", Bool2Json(m.link), "button:", Bool2Json(m.button), "}">>

RECURSIVE StringifyItems(_)
StringifyItems(msgs) ==
    IF msgs = << >> THEN << >>
    ELSE StringifyMsg(Head(msgs))
            \o (IF Len(msgs) > 1 THEN <<",">> ELSE << >>)
            \o StringifyItems(Tail(msgs))

\* JSON.stringify(data.messages)
Stringify(msgs) == <<"[">> \o StringifyItems(msgs) \o <<"]">>

-----------------------------------------------------------------------------
(* The host page: elements the selectors may match *)

\* document.querySelector found nothing
NULL == [tag |-> "null", href |-> EMPTY, closest |-> EMPTY, attrs |-> << >>]
\* a plain button: no URL can be derived from it
BUTTON_EL == [tag |-> "BUTTON", href |-> EMPTY, closest |-> EMPTY, attrs |-> << >>]
\* a link to URL1
ANCHOR_EL == [tag |-> "A", href |-> URL1, closest |-> URL1, attrs |-> << >>]
\* an element without a click method: calling target.click() throws
SVG_EL == [tag |-> "svg", href |-> EMPTY, closest |-> EMPTY, attrs |-> << >>]

\* a span inside a link to URL2: el.closest("a[href]") finds the link
SPAN_EL == [tag |-> "SPAN", href |-> EMPTY, closest |-> URL2, attrs |-> << >>]
\* an element whose data-url is relative and whose data-href is URL2; attrs
\* holds the values of data-url, data-href and href, in that order
CARD_EL == [tag |-> "DIV", href |-> EMPTY, closest |-> EMPTY,
            attrs |-> << RELURL, URL2, EMPTY >>]
\* an element whose only URL attribute is relative
TILE_EL == [tag |-> "DIV", href |-> EMPTY, closest |-> EMPTY,
            attrs |-> << RELURL, EMPTY, EMPTY >>]

Elements == { NULL, BUTTON_EL, ANCHOR_EL, SVG_EL, SPAN_EL, CARD_EL, TILE_EL }

HttpUrls == { PAGE0, URL1, URL2 }

\* /^https?:\/\//i.test(value)
IsHttp(value) == value \in HttpUrls

RECURSIVE FirstHttpAttr(_)
FirstHttpAttr(values) ==
    IF values = << >> THEN EMPTY
    ELSE IF Head(values) # EMPTY /\ IsHttp(Head(values)) THEN Head(values)
    ELSE FirstHttpAttr(Tail(values))

\* a lookup that derives no URL from any element
noNavigationUrl(el) == EMPTY

\* EMPTY stands for the function's null
getElementNavigationUrl(el) ==
    IF el = NULL THEN EMPTY
    ELSE IF el.tag = "A" /\ el.href # EMPTY THEN el.href
    ELSE IF el.closest # EMPTY THEN el.closest
    ELSE FirstHttpAttr(el.attrs)

\* target.click() returns normally
ClickWorks(el) == el.tag # "svg"

\* document.querySelector(selector) throws a SyntaxError
SelectorThrows(selector) == selector = BADSEL

\* document.querySelector(selector) on a selector that parses; dom maps the
\* selectors that match to the first element they match
querySelector(dom, selector) ==
    IF selector \in DOMAIN dom THEN dom[selector] ELSE NULL

-----------------------------------------------------------------------------
(* Bubbles and directives.  A page state w gathers what one call of         *)
(* appendBubble can change: the visible list, the navigation the document   *)
(* has been told to perform (EMPTY: none), the pending retry timers, and    *)
(* the count of side effects performed for each directive text.             *)

NONAV == EMPTY

DirectiveKeys == { URL1, URL2, SEL1, BADSEL }

\* the counts stop at 2: more than once is all that is asked of them
MaxEffects == 2

Bump(effects, key) ==
    IF key \in DOMAIN effects /\ effects[key] < MaxEffects
    THEN [effects EXCEPT ![key] = @ + 1]
    ELSE effects

Bubble(text, side) == [text |-> text, side |-> side]

PlainBubble(w, text, side) ==
    [w EXCEPT !.bubbles = Append(@, Bubble(text, side))]

\* window.location.assign(url)
Assign(w, url, key) ==
    [w EXCEPT !.nav = url, !.effects = Bump(@, key)]

\* a retry whose attempt also counts against the chains that are pending
RetryShared(w, selector, retries) ==
    LET spent == [k \in 1..Len(w.timers) |-> [w.timers[k] EXCEPT !.retries = @ - 1]]
    IN [w EXCEPT !.timers = Append(spent, [selector |-> selector, retries |-> retries - 1,
                                           delay |-> RETRY_DELAY])]

\* setTimeout(() => clickElementWithFallback(selector, retries - 1), 200)
Retry(w, selector, retries) ==
    [w EXCEPT !.timers = Append(@, [selector |-> selector, retries |-> retries - 1,
                                    delay |-> RETRY_DELAY])]

\* a catch that takes the selector for one that matches nothing yet
BadSelectorRetried(w, selector, retries) ==
    IF retries > 0 THEN Retry(w, selector, retries) ELSE w

\* the catch of document.querySelector(selector)
BadSelector(w, selector, retries) ==
    PlainBubble(w, <<"[Bad selector: ">> \o selector \o <<"]">>, "left")

\* a budget that is spent one retry early
BudgetLeftButOne(retries) == retries > 1

\* retries > 0
BudgetLeft(retries) == retries > 0

\* a guard that lets every navigation through
Anywhere(href, target) == TRUE

\* window.location.href !== target
Elsewhere(href, target) == href # target

clickElementWithFallback(w, selector, retries, href, dom) ==
    IF SelectorThrows(selector)
    THEN BadSelector(w, selector, retries)
    ELSE LET target == querySelector(dom, selector) IN
        IF target = NULL
        THEN IF BudgetLeft(retries)
             THEN Retry(w, selector, retries)
             ELSE PlainBubble(w, <<"[Element not found: ">> \o selector \o <<"]">>, "left")
        ELSE LET url == getElementNavigationUrl(target) IN
            IF url # EMPTY
            THEN IF Elsewhere(href, url) THEN Assign(w, url, selector) ELSE w
            ELSE IF ClickWorks(target)
                 THEN PlainBubble([w EXCEPT !.effects = Bump(@, selector)],
                                  <<"[Clicked ">> \o selector \o <<"]">>, "left")
                 ELSE PlainBubble(w, <<"[Could not click: ">> \o selector \o <<"]">>, "left")

\* a dispatch that goes on to the code that renders the text
FallThrough(w, text, side) == PlainBubble(w, text, side)

\* the return that ends a dispatch
Return(w, text, side) == w

appendBubble(w, text, side, link, button, href, dom) ==
    IF text = EMPTY THEN w
    ELSE IF link /\ side = "left"
    THEN LET target == Trim(text) IN
         Return(IF target # EMPTY /\ Elsewhere(href, target) THEN Assign(w, target, target)
                ELSE w,
                text, side)
    ELSE IF button /\ side = "left"
    THEN LET selector == Trim(text) IN
         IF selector = EMPTY THEN w
         ELSE Return(clickElementWithFallback(w, selector, DEFAULT_RETRIES, href, dom),
                     text, side)
    ELSE PlainBubble(w, text, side)

RECURSIVE forEachMsg(_, _, _, _)
forEachMsg(w, messages, href, dom) ==
    IF messages = << >> THEN w
    ELSE LET msg == Head(messages)
             side == IF msg.role = "user" THEN "right" ELSE "left"
         IN forEachMsg(appendBubble(w, msg.text, side, msg.link, msg.button, href, dom),
                       Tail(messages), href, dom)

\* a render that adds the snapshot to the list it finds
renderOnto(w, messages, href, dom) == forEachMsg(w, messages, href, dom)

\* messagesEl.innerHTML = ""; messages.forEach(...)
renderHistory(w, messages, href, dom) ==
    forEachMsg([w EXCEPT !.bubbles = << >>], messages, href, dom)

-----------------------------------------------------------------------------
(* State *)

VARIABLES
    href,               \* window.location.href
    nav,                \* URL the document is navigating to (NONAV: none)
    dom,                \* the host page's elements, by selector
    remote,             \* the backend's history
    issued,             \* times the backend has issued each directive
    bubbles,            \* children of #wt-messages
    awaitingReply,
    inputDisabled,      \* input.disabled
    sendDisabled,       \* sendBtn.disabled
    historySignature,
    conn,               \* text of #wt-conn
    sends,              \* /chat/send requests in flight
    polls,              \* /chat/history responses in flight
    timers,             \* pending setTimeout(clickElementWithFallback) calls
    effects,            \* side effects performed in this page load, by directive
    recInd,             \* "wt-wave-recording" is on the audio buttons
    playInd,            \* "wt-wave-playing" is on the audio buttons
    pending,            \* getUserMedia requests that have not been answered
    streams,            \* the capture streams handed out: their tracks are live
    recorders,          \* the MediaRecorder objects created
    mediaStream,        \* the stream the variable refers to (0: null)
    mediaRecorder,      \* the recorder the variable refers to (0: null)
    recordTimer,        \* the recorder whose start armed the pending timer (0: none)
    audioChunks,        \* the fragments in the shared array, by the recorder they are of
    uploads,            \* /chat/audio requests in flight
    speakers,           \* Audio elements that are playing
    event               \* the handler that ran last, and its outcome

page == << href, dom >>
backend == << remote, issued >>
gate == << awaitingReply, inputDisabled, sendDisabled >>
surface == << bubbles, nav, timers, effects >>
capture == << pending, streams, recorders, mediaStream, mediaRecorder, recordTimer,
             audioChunks >>
audio == << recInd, playInd, capture, uploads, speakers >>

vars == << page, backend, gate, surface, audio, historySignature, conn, sends, polls,
           event >>

W == [bubbles |-> bubbles, nav |-> nav, timers |-> timers, effects |-> effects]

\* the page state w becomes the next state's, within the model's bounds
Becomes(w) ==
    /\ Len(w.bubbles) <= MaxBubbles
    /\ Len(w.timers) <= MaxChains
    /\ bubbles' = w.bubbles
    /\ nav' = w.nav
    /\ timers' = w.timers
    /\ effects' = w.effects

RemoveAt(seq, i) == SubSeq(seq, 1, i - 1) \o SubSeq(seq, i + 1, Len(seq))

NoEffects == [k \in DirectiveKeys |-> 0]

NoReply == Msg("assistant", EMPTY, FALSE, FALSE)

RECURSIVE IssuedIn(_)
\* the directives of a history, counted by their text
IssuedIn(history) ==
    IF history = << >> THEN NoEffects
    ELSE LET m == Head(history) IN
         IF IsDirective(m) THEN Bump(IssuedIn(Tail(history)), Trim(m.text))
         ELSE IssuedIn(Tail(history))

\* what the DOMContentLoaded handler leaves on a page whose selector matches
\* one of els, with the backend holding one of histories: an empty widget and
\* the first pollHistory() on its way
Loaded(els, histories) ==
    /\ remote \in histories
    /\ issued = IssuedIn(remote)
    /\ href = PAGE0
    /\ nav = NONAV
    /\ dom \in [{SEL1} -> els]
    /\ bubbles = << >>
    /\ awaitingReply = FALSE
    /\ inputDisabled = FALSE
    /\ sendDisabled = FALSE
    /\ historySignature = EMPTY
    /\ conn = "Connecting..."
    /\ sends = << >>
    /\ polls = << remote >>
    /\ timers = << >>
    /\ effects = NoEffects
    /\ recInd = FALSE
    /\ playInd = FALSE
    /\ pending = 0
    /\ streams = << >>
    /\ recorders = << >>
    /\ mediaStream = 0
    /\ mediaRecorder = 0
    /\ recordTimer = 0
    /\ audioChunks = << >>
    /\ uploads = << >>
    /\ speakers = 0
    /\ event = "load"

\* awaitingReply = false; input.disabled = false; sendBtn.disabled = false
ReleaseGate ==
    /\ awaitingReply' = FALSE
    /\ inputDisabled' = FALSE
    /\ sendDisabled' = FALSE

\* a submit that leaves the gate as it finds it
LeaveGate == UNCHANGED gate

\* awaitingReply = true; input.disabled = true; sendBtn.disabled = true
HoldGate ==
    /\ awaitingReply' = TRUE
    /\ inputDisabled' = TRUE
    /\ sendDisabled' = TRUE

\* the finally of a postMessage that forgets the gate
SendKeepsGate == UNCHANGED gate

\* postMessage's finally
SendReleasesGate == ReleaseGate

\* the text of the input as typed
Untrimmed(value) == value

\* (input.value || "").trim()
inputText(value) == Trim(value)

\* a gate that never holds
GateOpen == FALSE

\* if (awaitingReply) return
GateHeld == awaitingReply

\* a /chat/send request on its way to the backend
Request(text) == [message |-> text, phase |-> "sent", ok |-> FALSE, reply |-> NoReply]

\* a lookup that finds no class on any audio button
noAudioState(className) == FALSE

\* audioButtons.some((button) => button.classList.contains(className))
hasAudioState(className) ==
    IF className = "wt-wave-recording" THEN recInd ELSE playInd

-----------------------------------------------------------------------------
(* The form's submit handler, up to the await of fetch in postMessage *)

Submit(value) ==
    /\ UNCHANGED << page, backend, audio, historySignature, conn, polls >>
    /\ IF GateHeld
       THEN /\ event' = "submit: gate held"
            /\ UNCHANGED << gate, surface, sends >>
       ELSE IF hasAudioState("wt-wave-recording") \/ hasAudioState("wt-wave-playing")
       THEN /\ event' = "submit: audio busy"
            /\ UNCHANGED << gate, surface, sends >>
       ELSE LET text == inputText(value) IN
            IF text = EMPTY
            THEN /\ event' = "submit: empty"
                 /\ UNCHANGED << gate, surface, sends >>
            ELSE /\ Len(sends) < MaxSends
                 /\ Becomes(appendBubble(W, text, "right", FALSE, FALSE, href, dom))
                 /\ HoldGate
                 /\ sends' = Append(sends, Request(text))
                 /\ event' = "submit: sent"

\* the backend takes a /chat/send request: it answers ok:false, or ok:true
\* with a reply that it also records, after the user's message, in the history
BackendSend(i, ok, reply) ==
    /\ i \in 1..Len(sends)
    /\ sends[i].phase = "sent"
    /\ IF ok /\ reply.text # EMPTY
       THEN /\ Len(remote) + 2 <= MaxHist
            /\ IsDirective(reply) => issued[Trim(reply.text)] < MaxIssue
            /\ remote' = remote \o << UserMsg(sends[i].message), reply >>
            /\ issued' = IF IsDirective(reply) THEN Bump(issued, Trim(reply.text)) ELSE issued
       ELSE UNCHANGED backend
    /\ sends' = [sends EXCEPT ![i] = [@ EXCEPT !.phase = "answered", !.ok = ok, !.reply = reply]]
    /\ UNCHANGED << page, gate, surface, audio, historySignature, conn, polls, event >>

\* postMessage after its awaits: the response body has been parsed
postMessage(i) ==
    /\ i \in 1..Len(sends)
    /\ sends[i].phase = "answered"
    /\ LET data == sends[i] IN
       IF ~data.ok
       THEN /\ UNCHANGED surface
            /\ event' = "send: not ok"
       ELSE IF data.reply.text # EMPTY
       THEN /\ Becomes(appendBubble(W, data.reply.text, "left", data.reply.link,
                                    data.reply.button, href, dom))
            /\ event' = "send: reply"
       ELSE /\ UNCHANGED surface
            /\ event' = "send: no reply"
    /\ SendReleasesGate
    /\ sends' = RemoveAt(sends, i)
    /\ UNCHANGED << page, backend, audio, historySignature, conn, polls >>

\* postMessage when fetch or response.json() rejects: catch, then finally
postMessageFails(i) ==
    /\ i \in 1..Len(sends)
    /\ SendReleasesGate
    /\ sends' = RemoveAt(sends, i)
    /\ event' = "send: failed"
    /\ UNCHANGED << page, backend, surface, audio, historySignature, conn, polls >>

-----------------------------------------------------------------------------
(* History polling *)

\* an interval that is cleared once a poll has failed
IntervalEndsOffline == conn # "Offline"

\* setInterval(pollHistory, 2000) is never cleared: there is no clearInterval,
\* and nothing pollHistory does or throws ends the interval
IntervalRuns == TRUE

\* setInterval(pollHistory, 2000) fires: the request goes out and the backend
\* reads its history for the answer
PollTickWithin(limit) ==
    /\ IntervalRuns
    /\ Len(polls) < limit
    /\ polls' = Append(polls, remote)
    /\ UNCHANGED << page, backend, gate, surface, audio, historySignature, conn, sends,
                    event >>

\* the tick where a request is out for less than the interval
PollTick == PollTickWithin(MaxPolls)

\* how a /chat/history request ends: "ok" a 2xx response with {ok:true,
\* messages:[...]}, "refused" a 2xx response with ok:false or without a list,
\* "status" a non-2xx response, "throws" fetch or response.json() rejecting
PollOutcomes == { "ok", "refused", "status", "throws" }

\* a status label that shows the connection as up whatever it is told
setConnected(text) == conn' = "Connected"

\* a status label that is never written
keepConn(text) == conn' = conn

\* setConn(text, ok): the label of the connection status
setConn(text) == conn' = text

\* a comparison that finds every snapshot new
AlwaysDiffers(signature, remembered) == TRUE

\* a comparison that lets in only a snapshot longer than the remembered one
Longer(signature, remembered) == Len(signature) > Len(remembered)

\* signature !== historySignature
Differs(signature, remembered) == signature # remembered

\* a poll that leaves the gate as it is
PollKeepsGate == UNCHANGED gate

\* a poll that clears the flag and leaves the input and the button disabled
PollClearsFlagOnly == awaitingReply' = FALSE /\ UNCHANGED << inputDisabled, sendDisabled >>

\* awaitingReply = false; input.disabled = false; sendBtn.disabled = false
PollReleasesGate == ReleaseGate

\* pollHistory after its awaits
pollHistory(i, outcome) ==
    /\ i \in 1..Len(polls)
    /\ polls' = RemoveAt(polls, i)
    /\ UNCHANGED << page, backend, audio, sends >>
    /\ IF outcome \in { "status", "throws" }
       THEN /\ setConn("Offline")
            /\ event' = "poll: offline"
            /\ UNCHANGED << gate, surface, historySignature >>
       ELSE IF outcome = "refused"
       THEN /\ setConn("Connected")
            /\ event' = "poll: refused"
            /\ UNCHANGED << gate, surface, historySignature >>
       ELSE LET messages == polls[i]
                signature == Stringify(messages)
            IN /\ setConn("Connected")
               /\ IF Differs(signature, historySignature)
                  THEN /\ historySignature' = signature
                       /\ PollReleasesGate
                       /\ Becomes(renderHistory(W, messages, href, dom))
                       /\ event' = "poll: changed"
                  ELSE /\ event' = "poll: unchanged"
                       /\ UNCHANGED << gate, surface, historySignature >>

-----------------------------------------------------------------------------
(* Voice: recording a clip, its upload to /chat/audio, the spoken reply.    *)
(* The handlers share the variables mediaStream, mediaRecorder and          *)
(* recordTimer; the streams and recorders themselves are objects that live  *)
(* on when a variable is made to refer to another.                          *)

\* recInd or playInd after addAudioState
addAudioState(className) ==
    IF className = "wt-wave-recording"
    THEN recInd' = TRUE /\ UNCHANGED playInd
    ELSE playInd' = TRUE /\ UNCHANGED recInd

\* mediaRecorder && mediaRecorder.state === "recording"
Recording == mediaRecorder # 0 /\ recorders[mediaRecorder].phase = "recording"

\* mediaRecorder.stop(): the state becomes "inactive" and a stop event is queued
Stopped(all, r) == [all EXCEPT ![r].phase = "stopping"]

\* a start that asks the device although a reply is being played
AsksAnyway(playing) == FALSE

\* if (hasAudioState("wt-wave-playing")) return
RefusesStart(playing) == playing

\* startRecording up to its await of getUserMedia
startRecording ==
    IF RefusesStart(hasAudioState("wt-wave-playing"))
    THEN /\ event' = "record: playing"
         /\ UNCHANGED audio
    ELSE IF Recording
    THEN /\ event' = "record: recording"
         /\ UNCHANGED audio
    ELSE /\ pending < MaxStarts
         /\ pending' = pending + 1
         /\ event' = "record: asked"
         /\ UNCHANGED << recInd, playInd, streams, recorders, mediaStream, mediaRecorder,
                         recordTimer, audioChunks, uploads, speakers >>

\* how the device request and the construction of the recorder end: the
\* device refuses, the device grants and MediaRecorder throws, both succeed
DeviceAnswers == { "denied", "unsupported", "granted" }

\* a start that leaves a timer that is pending in place
KeepsTimer(old, new) == IF old # 0 THEN old ELSE new

\* if (recordTimer) clearTimeout(recordTimer); recordTimer = setTimeout(...)
ReplacesTimer(old, new) == new

\* audioChunks = []
ResetsChunks(chunks) == << >>

\* startRecording after its await
startRecordingResumes(answer) ==
    /\ pending > 0
    /\ pending' = pending - 1
    /\ UNCHANGED << page, backend, gate, surface, historySignature, conn, sends, polls,
                    playInd, uploads, speakers >>
    /\ IF answer = "denied"
       THEN /\ recInd' = FALSE
            /\ event' = "record: denied"
            /\ UNCHANGED << streams, recorders, mediaStream, mediaRecorder, recordTimer,
                            audioChunks >>
       ELSE /\ Len(streams) < MaxStreams
            /\ streams' = Append(streams, TRUE)
            /\ mediaStream' = Len(streams) + 1
            /\ IF answer = "unsupported"
               THEN /\ recInd' = FALSE
                    /\ event' = "record: unsupported"
                    /\ UNCHANGED << recorders, mediaRecorder, recordTimer, audioChunks >>
               ELSE /\ recorders' = Append(recorders, [phase |-> "recording",
                                                       stream |-> Len(streams) + 1])
                    /\ mediaRecorder' = Len(recorders) + 1
                    /\ audioChunks' = ResetsChunks(audioChunks)
                    /\ recInd' = TRUE
                    /\ recordTimer' = ReplacesTimer(recordTimer, Len(recorders) + 1)
                    /\ event' = "record: started"

stopRecording ==
    /\ recordTimer' = 0
    /\ recorders' = IF Recording THEN Stopped(recorders, mediaRecorder) ELSE recorders
    /\ recInd' = FALSE
    /\ event' = "record: stopped"
    /\ UNCHANGED << playInd, pending, streams, mediaStream, mediaRecorder, audioChunks,
                    uploads, speakers >>

\* a click on either audio button
toggleAudio ==
    /\ IF ~Recording THEN startRecording ELSE stopRecording
    /\ UNCHANGED << page, backend, gate, surface, historySignature, conn, sends, polls >>

\* the setTimeout of startRecording fires, MAX_AUDIO_LEN seconds on
recordTimerFires ==
    /\ recordTimer # 0
    /\ recordTimer' = 0
    /\ recorders' = IF Recording THEN Stopped(recorders, mediaRecorder) ELSE recorders
    /\ event' = "record: ceiling"
    /\ UNCHANGED << page, backend, gate, surface, historySignature, conn, sends, polls,
                    recInd, playInd, pending, streams, mediaStream, mediaRecorder,
                    audioChunks, uploads, speakers >>

\* sendAudio up to its await of fetch, for the clip of recorder r, whose
\* blob was made of the fragments chunks
Upload(r, chunks) ==
    [clip |-> r, blob |-> chunks, phase |-> "sent", ok |-> FALSE, transcript |-> EMPTY,
     reply |-> NoReply, speech |-> "none"]

\* ondataavailable of recorder r: audioChunks.push(event.data)
Pushed(chunks, r) == Append(chunks, r)

\* mediaStream && mediaStream.getTracks().forEach((track) => track.stop())
StopsTracks(live, stream) ==
    IF stream # 0 THEN [live EXCEPT ![stream] = FALSE] ELSE live

\* recorder r, started without a timeslice, delivers what it captured as one
\* fragment when it is stopped: its dataavailable event and its stop event are
\* fired in one task, so ondataavailable and onstop run one after the other
onstop(r) ==
    /\ r \in 1..Len(recorders)
    /\ recorders[r].phase = "stopping"
    /\ Len(uploads) < MaxUploads
    /\ streams' = StopsTracks(streams, mediaStream)
    /\ recorders' = [recorders EXCEPT ![r].phase = "stopped"]
    /\ audioChunks' = Pushed(audioChunks, r)
    /\ uploads' = Append(uploads, Upload(r, audioChunks'))
    /\ event' = "record: uploading"
    /\ UNCHANGED << page, backend, gate, surface, historySignature, conn, sends, polls,
                    recInd, playInd, pending, mediaStream, mediaRecorder, recordTimer,
                    speakers >>

\* how the synthesized reply of a response fares: there is none, audio.play()
\* resolves, audio.play() rejects
Speeches == { "none", "plays", "fails" }

\* the backend takes a /chat/audio request: it answers ok:false, or ok:true
\* with what it heard and its reply, both of which it records in the history
BackendAudio(i, ok, reply, speech) ==
    /\ i \in 1..Len(uploads)
    /\ uploads[i].phase = "sent"
    /\ IF ok
       THEN /\ Len(remote) + 2 <= MaxHist
            /\ IsDirective(reply) => issued[Trim(reply.text)] < MaxIssue
            /\ remote' = remote \o << UserMsg(TRANSCRIPT), reply >>
            /\ issued' = IF IsDirective(reply) THEN Bump(issued, Trim(reply.text)) ELSE issued
       ELSE UNCHANGED backend
    /\ uploads' = [uploads EXCEPT ![i] =
                      [clip |-> @.clip, blob |-> @.blob, phase |-> "answered", ok |-> ok,
                       transcript |-> IF ok THEN TRANSCRIPT ELSE EMPTY,
                       reply |-> reply, speech |-> speech]]
    /\ UNCHANGED << page, gate, surface, historySignature, conn, sends, polls, recInd,
                    playInd, capture, speakers, event >>

\* a catch that leaves the indicator of a playback that never began
catchKeepsPlaying(playing) == playing

\* the catch of audio.play(): clearPlaying()
catchClearsPlaying(playing) == FALSE

\* sendAudio after its awaits: the response body has been parsed
sendAudio(i) ==
    /\ i \in 1..Len(uploads)
    /\ uploads[i].phase = "answered"
    /\ LET data == uploads[i] IN
       IF ~data.ok
       THEN /\ UNCHANGED << surface, playInd, speakers >>
            /\ event' = "audio: not ok"
       ELSE LET heard == IF data.transcript # EMPTY
                         THEN appendBubble(W, data.transcript, "right", FALSE, FALSE,
                                           href, dom)
                         ELSE W
                told == IF data.reply.text # EMPTY
                        THEN appendBubble(heard, data.reply.text, "left", data.reply.link,
                                          data.reply.button, href, dom)
                        ELSE heard
            IN /\ Becomes(told)
               /\ playInd' = IF data.speech = "plays" THEN TRUE
                             ELSE IF data.speech = "fails" THEN catchClearsPlaying(TRUE)
                             ELSE playInd
               /\ speakers' = IF data.speech = "plays" THEN speakers + 1 ELSE speakers
               /\ event' = "audio: reply"
    /\ recInd' = FALSE
    /\ uploads' = RemoveAt(uploads, i)
    /\ UNCHANGED << page, backend, gate, historySignature, conn, sends, polls, capture >>

\* sendAudio when fetch or response.json() rejects: catch, then finally
sendAudioFails(i) ==
    /\ i \in 1..Len(uploads)
    /\ recInd' = FALSE
    /\ uploads' = RemoveAt(uploads, i)
    /\ event' = "audio: failed"
    /\ UNCHANGED << page, backend, gate, surface, historySignature, conn, sends, polls,
                    playInd, capture, speakers >>

\* an Audio element ends or is paused: its "ended" and "pause" listeners
clearPlaying ==
    /\ speakers > 0
    /\ speakers' = speakers - 1
    /\ playInd' = FALSE
    /\ event' = "audio: played"
    /\ UNCHANGED << page, backend, gate, surface, historySignature, conn, sends, polls,
                    recInd, capture, uploads >>

-----------------------------------------------------------------------------
(* Retry timers, and the world around the widget *)

\* a setTimeout(() => clickElementWithFallback(selector, retries - 1), 200) fires
RetryTimer(i) ==
    /\ i \in 1..Len(timers)
    /\ Becomes(clickElementWithFallback([W EXCEPT !.timers = RemoveAt(timers, i)],
                                        timers[i].selector, timers[i].retries, href, dom))
    /\ event' = "retry"
    /\ UNCHANGED << page, backend, gate, audio, historySignature, conn, sends, polls >>

\* the host page puts an element where the selector had none
ElementAppears(el) ==
    /\ el # NULL
    /\ dom[SEL1] = NULL
    /\ dom' = [dom EXCEPT ![SEL1] = el]
    /\ UNCHANGED << href, backend, gate, surface, audio, historySignature, conn, sends,
                    polls, event >>

\* another client of the backend adds an entry to the history
BackendAppend(m) ==
    /\ Len(remote) < MaxHist
    /\ IsDirective(m) => issued[Trim(m.text)] < MaxIssue
    /\ remote' = Append(remote, m)
    /\ issued' = IF IsDirective(m) THEN Bump(issued, Trim(m.text)) ELSE issued
    /\ UNCHANGED << page, gate, surface, audio, historySignature, conn, sends, polls,
                    event >>

\* the navigation asked for by window.location.assign takes place: the
\* document is replaced and the widget starts again on the new page
PageLoad(el) ==
    /\ nav # NONAV
    /\ UNCHANGED backend
    /\ href' = nav
    /\ nav' = NONAV
    /\ dom' = [dom EXCEPT ![SEL1] = el]
    /\ bubbles' = << >>
    /\ awaitingReply' = FALSE
    /\ inputDisabled' = FALSE
    /\ sendDisabled' = FALSE
    /\ historySignature' = EMPTY
    /\ conn' = "Connecting..."
    /\ sends' = << >>
    /\ polls' = << remote >>
    /\ timers' = << >>
    /\ effects' = NoEffects
    /\ recInd' = FALSE
    /\ playInd' = FALSE
    /\ pending' = 0
    /\ streams' = << >>
    /\ recorders' = << >>
    /\ mediaStream' = 0
    /\ mediaRecorder' = 0
    /\ recordTimer' = 0
    /\ audioChunks' = << >>
    /\ uploads' = << >>
    /\ speakers' = 0
    /\ event' = "load"

-----------------------------------------------------------------------------
(* The chat: a page whose selector matches a button, and a backend whose    *)
(* history only grows                                                       *)

Init == Loaded({ BUTTON_EL }, { << >> })

Next ==
    \/ \E text \in InputTexts : Submit(text)
    \/ \E i \in 1..MaxSends, reply \in Replies : BackendSend(i, TRUE, reply)
    \/ \E i \in 1..MaxSends : BackendSend(i, TRUE, NoReply)
    \/ \E i \in 1..MaxSends : BackendSend(i, FALSE, NoReply)
    \/ \E i \in 1..MaxSends : postMessage(i)
    \/ \E i \in 1..MaxSends : postMessageFails(i)
    \/ PollTick
    \/ \E i \in 1..MaxPolls, outcome \in PollOutcomes : pollHistory(i, outcome)
    \/ \E m \in Replies \cup { UserMsg(USERTEXT) } : BackendAppend(m)
    \/ PageLoad(BUTTON_EL)

Spec == Init /\ [][Next]_vars

-----------------------------------------------------------------------------
(* What a snapshot shows *)

\* the bracketed reports the dispatcher adds to the visible list
IsReport(bubble) ==
    Head(bubble.text) \in { "[Bad selector: ", "[Element not found: ", "[Clicked ",
                            "[Could not click: " }

NotReport(bubble) == ~IsReport(bubble)

\* the visible list without the dispatcher's reports
Shown(list) == SelectSeq(list, NotReport)

RECURSIVE Visible(_)
\* the entries of a snapshot that are text to show, as bubbles, in order
Visible(messages) ==
    IF messages = << >> THEN << >>
    ELSE LET m == Head(messages) IN
         (IF m.text = EMPTY \/ IsDirective(m) THEN << >>
          ELSE << Bubble(m.text, IF m.role = "user" THEN "right" ELSE "left") >>)
         \o Visible(Tail(messages))

\* the /chat/history response i carries a snapshot whose serialized form is
\* not the remembered signature
ChangedSnapshot(i) ==
    /\ i \in 1..Len(polls)
    /\ Stringify(polls[i]) # historySignature

-----------------------------------------------------------------------------
(* C1: a successful poll whose snapshot serializes differently from the     *)
(* remembered signature, in that one step, rebuilds the visible list from   *)
(* the snapshot (its text entries in order; nothing of the old list stays), *)
(* remembers the snapshot's serialized form, and clears awaitingReply and   *)
(* enables the input and the send button, a send in flight or not.          *)
C1_ChangedPollRerendersAndClearsGate ==
    [][\A i \in 1..MaxPolls :
          (ChangedSnapshot(i) /\ pollHistory(i, "ok")) =>
              /\ historySignature' = Stringify(polls[i])
              /\ Shown(bubbles') = Visible(polls[i])
              /\ ~awaitingReply' /\ ~inputDisabled' /\ ~sendDisabled']_vars

\* a changed snapshot has just been rendered over an optimistic bubble while
\* the /chat/send request was still out, and the gate is clear
C1_Witness ==
    /\ event = "poll: changed"
    /\ sends # << >>
    /\ historySignature # EMPTY
    /\ Shown(bubbles) # << >>
    /\ ~awaitingReply /\ ~inputDisabled /\ ~sendDisabled

-----------------------------------------------------------------------------
(* C2: a successful poll whose snapshot serializes to the remembered        *)
(* signature changes nothing of the visible list, dispatches nothing (no    *)
(* navigation, no retry timer, no side effect), leaves the signature and    *)
(* the gate as they were and shows the connection as connected; the list is *)
(* rebuilt exactly when the serialized form differs.                        *)
C2_UnchangedPollRendersNothing ==
    [][\A i \in 1..MaxPolls :
          (i \in 1..Len(polls) /\ pollHistory(i, "ok")) =>
              /\ conn' = "Connected"
              /\ IF Stringify(polls[i]) = historySignature
                 THEN UNCHANGED << bubbles, nav, timers, effects, historySignature,
                                   awaitingReply, inputDisabled, sendDisabled >>
                 ELSE /\ Shown(bubbles') = Visible(polls[i])
                      /\ historySignature' # historySignature]_vars

\* an unchanged snapshot has just arrived while the list held an optimistic
\* bubble that the snapshot does not have, and the gate was held: both stay
C2_Witness ==
    /\ event = "poll: unchanged"
    /\ conn = "Connected"
    /\ awaitingReply /\ inputDisabled /\ sendDisabled
    /\ \E n \in 0..MaxHist :
          /\ n <= Len(remote)
          /\ historySignature = Stringify(SubSeq(remote, 1, n))
          /\ Shown(bubbles) # Visible(SubSeq(remote, 1, n))

-----------------------------------------------------------------------------
\* no request, response or timer is outstanding, the document is not about to
\* be replaced, and a snapshot has been fetched
Settled ==
    /\ sends = << >>
    /\ polls = << >>
    /\ timers = << >>
    /\ nav = NONAV
    /\ historySignature # EMPTY

\* the snapshots a poll of this backend can have fetched: its history only
\* grows, so they are the prefixes of the history
Fetched(n) == SubSeq(remote, 1, n)

(* C3: once nothing is outstanding, the visible list is the most recently   *)
(* fetched snapshot, the one whose serialized form is remembered: no        *)
(* optimistic bubble is left over, no reply is shown twice, no report of    *)
(* the dispatcher stays.                                                    *)
C3_SettledListIsLastSnapshot ==
    Settled =>
        \A n \in 0..Len(remote) :
            historySignature = Stringify(Fetched(n)) => bubbles = Visible(Fetched(n))

(* C4: in one page load no directive is executed more often than the        *)
(* backend issued it: not once from the /chat/send response and again from  *)
(* the history, and not again by a later render.                            *)
C4_DirectiveExecutedOnce ==
    \A key \in DirectiveKeys : effects[key] <= issued[key]

-----------------------------------------------------------------------------
(* C6: a submit whose text is empty once trimmed does nothing: no request   *)
(* goes out, no bubble is added, the gate and the input stay as they were.  *)
C6_EmptySubmitDoesNothing ==
    [][\A value \in InputTexts :
          (Trim(value) = EMPTY /\ Submit(value)) =>
              UNCHANGED << sends, bubbles, awaitingReply, inputDisabled, sendDisabled,
                           nav, timers, effects, polls, historySignature, conn >>]_vars

\* a blank submit has just been made with the gate clear, and nothing is out
C6_Witness ==
    /\ event = "submit: empty"
    /\ sends = << >>
    /\ bubbles = << >>
    /\ ~awaitingReply /\ ~inputDisabled /\ ~sendDisabled

\* the step is the handling of a /chat/send response or failure
SendSettles == Len(sends') < Len(sends)

\* the step applies a poll result whose snapshot differs
PollApplies == historySignature' # historySignature

(* C7: while awaitingReply is set every submit is rejected (no request, no  *)
(* bubble); a request is issued only with the gate clear and sets it; and,  *)
(* within a page load, a set gate is cleared only by a /chat/send request   *)
(* settling or by a poll result that differs.                               *)
C7_GateRejectsSubmits ==
    [][/\ \A value \in InputTexts :
            (awaitingReply /\ Submit(value)) =>
                UNCHANGED << sends, bubbles, awaitingReply, inputDisabled, sendDisabled >>
       /\ Len(sends') > Len(sends) => (~awaitingReply /\ awaitingReply')
       /\ (awaitingReply /\ ~awaitingReply' /\ event' # "load") =>
              (SendSettles \/ PollApplies)]_vars

\* a submit has just been rejected by the gate while two requests are out:
\* the second was issued after a poll had cleared the gate of the first
C7_Witness ==
    /\ event = "submit: gate held"
    /\ awaitingReply
    /\ Len(sends) = 2

PlainReplyArrives(i) ==
    /\ i \in 1..Len(sends)
    /\ sends[i].phase = "answered"
    /\ sends[i].ok
    /\ sends[i].reply.text # EMPTY
    /\ ~IsDirective(sends[i].reply)

RefusalArrives(i) ==
    /\ i \in 1..Len(sends)
    /\ sends[i].phase = "answered"
    /\ ~sends[i].ok

-----------------------------------------------------------------------------
(* The chat with voice: the three ways a reply of the backend reaches the   *)
(* widget (the /chat/send response, the /chat/audio response, the history)  *)

NextVoice ==
    \/ \E value \in { USERTEXT } : Submit(value)
    \/ \E i \in 1..MaxSends, reply \in Replies : BackendSend(i, TRUE, reply)
    \/ \E i \in 1..MaxSends : postMessage(i)
    \/ toggleAudio
    \/ \E answer \in DeviceAnswers : startRecordingResumes(answer)
    \/ recordTimerFires
    \/ \E r \in 1..MaxStreams : onstop(r)
    \/ \E i \in 1..MaxUploads, reply \in Replies, speech \in Speeches :
          BackendAudio(i, TRUE, reply, speech)
    \/ \E i \in 1..MaxUploads : BackendAudio(i, FALSE, NoReply, "none")
    \/ \E i \in 1..MaxUploads : sendAudio(i)
    \/ \E i \in 1..MaxUploads : sendAudioFails(i)
    \/ clearPlaying
    \/ PollTick
    \/ \E i \in 1..MaxPolls : pollHistory(i, "ok")
    \/ PageLoad(BUTTON_EL)

SpecVoice == Init /\ [][NextVoice]_vars

\* the texts the backend has answered with under a link or button flag
Flagged == { remote[k].text : k \in { j \in 1..Len(remote) : IsDirective(remote[j]) } }

(* C10: a text that the backend sent flagged link:true or button:true, in a *)
(* /chat/send response, a /chat/audio response or a history entry of the    *)
(* assistant, is never the text of a bubble of the visible list.            *)
C10_DirectiveTextNeverShown ==
    \A k \in 1..Len(bubbles) :
        /\ bubbles[k].text \notin Flagged
        /\ Trim(bubbles[k].text) \notin { Trim(text) : text \in Flagged }

\* the /chat/audio response carried an activate directive: the button was
\* clicked, and the list holds what was heard and the dispatcher's report
C10_Witness ==
    /\ event = "audio: reply"
    /\ Flagged = { SEL1 }
    /\ effects[SEL1] = 1
    /\ bubbles = << Bubble(TRANSCRIPT, "right"),
                    Bubble(<<"[Clicked ">> \o SEL1 \o <<"]">>, "left") >>

-----------------------------------------------------------------------------
(* Navigation across page loads: the backend's history stays as it is, the  *)
(* widget polls it, and every page the widget sends the browser to loads    *)
(* the widget again.  The interval timer keeps firing, a request that is    *)
(* out gets its answer, and a document told to navigate does navigate.      *)

NavigateTo(url) == Msg("assistant", url, TRUE, FALSE)

NavEntries == { NavigateTo(URL1), NavigateTo(URL2), Msg("assistant", REPLYTEXT, FALSE, FALSE) }

\* the histories of at most MaxHist of these entries
NavHistories ==
    UNION { [1..n -> NavEntries] : n \in 0..MaxHist }

InitNav == Loaded({ BUTTON_EL }, NavHistories)

NextNav ==
    \/ PollTick
    \/ \E i \in 1..MaxPolls, outcome \in { "ok", "throws" } : pollHistory(i, outcome)
    \/ PageLoad(BUTTON_EL)

SpecNav ==
    /\ InitNav
    /\ [][NextNav]_vars
    /\ WF_vars(PollTick)
    /\ WF_vars(\E i \in 1..MaxPolls : pollHistory(i, "ok"))
    /\ WF_vars(PageLoad(BUTTON_EL))

(* C5: with the history fixed, the widget navigates only finitely often     *)
(* over its page loads: from some point on no navigation is pending, also   *)
(* when the history holds navigate directives to different targets.         *)
C5_NavigationEnds == <>[](nav = NONAV)

-----------------------------------------------------------------------------
(* The dispatcher on a host page: the selector may match nothing, a button, *)
(* a link or an element that cannot be clicked, and the page may change     *)
(* while a retry chain is pending                                           *)

InitClick == Loaded(Elements, { << >> })

NextClick ==
    \/ \E value \in { USERTEXT } : Submit(value)
    \/ \E i \in 1..MaxSends, reply \in Replies : BackendSend(i, TRUE, reply)
    \/ \E i \in 1..MaxSends : postMessage(i)
    \/ PollTick
    \/ \E i \in 1..MaxPolls : pollHistory(i, "ok")
    \/ \E i \in 1..MaxChains : RetryTimer(i)
    \/ \E el \in Elements : ElementAppears(el)
    \/ \E el \in Elements : PageLoad(el)

SpecClick == InitClick /\ [][NextClick]_vars

\* response i hands its reply to the dispatcher: appendBubble(data.reply,
\* "left", data.link === true, data.button === true)
Dispatches(i) ==
    /\ i \in 1..Len(sends)
    /\ sends[i].phase = "answered"
    /\ sends[i].ok
    /\ sends[i].reply.text # EMPTY

\* the step adds a bubble to the visible list
BubbleAdded == Len(bubbles') > Len(bubbles)

\* the step asks for a navigation or clicks an element
SideEffect == effects' # effects

\* the step adds one bubble, a bracketed report of the dispatcher
ReportAdded ==
    /\ Len(bubbles') = Len(bubbles) + 1
    /\ SubSeq(bubbles', 1, Len(bubbles)) = bubbles
    /\ IsReport(bubbles'[Len(bubbles')])

(* C11, as the spec has it: every dispatch either adds a bubble or performs *)
(* a side effect, never both and never neither.                             *)
C11_BubbleXorSideEffect ==
    [][\A i \in 1..MaxSends :
          (Dispatches(i) /\ postMessage(i)) => (BubbleAdded # SideEffect)]_vars

\* the report of a click that went through
Clicked(selector) == Bubble(<<"[Clicked ">> \o selector \o <<"]">>, "left")

(* C11, amended: a dispatch with neither flag adds the text as one bubble   *)
(* and performs no side effect.  A flagged dispatch never adds the text: it *)
(* adds nothing or one bracketed report; a navigation adds no bubble; a     *)
(* click adds the report '[Clicked ...]', so there both occur; and neither  *)
(* occurs when the target is the current location or the selector matches   *)
(* nothing yet.                                                             *)
C11_DispatchOutcomes ==
    [][\A i \in 1..MaxSends :
          (Dispatches(i) /\ postMessage(i)) =>
              LET reply == sends[i].reply IN
              IF ~reply.link /\ ~reply.button
              THEN /\ bubbles' = Append(bubbles, Bubble(reply.text, "left"))
                   /\ UNCHANGED << nav, effects, timers >>
              ELSE IF reply.link
              THEN /\ bubbles' = bubbles
                   /\ IF href # Trim(reply.text)
                      THEN SideEffect /\ nav' = Trim(reply.text)
                      ELSE ~SideEffect /\ nav' = nav
              ELSE /\ bubbles' = bubbles \/ ReportAdded
                   /\ (SideEffect /\ BubbleAdded) =>
                          /\ bubbles' = Append(bubbles, Clicked(Trim(reply.text)))
                          /\ nav' = nav
                   /\ (SideEffect /\ ~BubbleAdded) => (nav' \in HttpUrls /\ nav' # href)
                   /\ (~SelectorThrows(Trim(reply.text)) /\ dom[Trim(reply.text)] = NULL) =>
                          /\ ~BubbleAdded /\ ~SideEffect
                          /\ Len(timers') = Len(timers) + 1]_vars

\* a reply has just been dispatched as a click that went through: the button
\* was clicked and the report stands under the user's bubble
C11_Witness ==
    /\ event = "send: reply"
    /\ effects[SEL1] = 1
    /\ nav = NONAV
    /\ bubbles = << Bubble(USERTEXT, "right"), Clicked(SEL1) >>

\* the /chat/history response i carries a new snapshot whose last entry is a
\* navigate directive, after the user's message
LinkSnapshot(i) ==
    /\ ChangedSnapshot(i)
    /\ Len(polls[i]) = 2
    /\ ~IsDirective(polls[i][1])
    /\ polls[i][2].role = "assistant" /\ polls[i][2].link

\* what a navigate directive of this text does: the document is told to go
\* to the trimmed text when that is not where it is, otherwise nothing
Navigates(text) ==
    IF Trim(text) # href
    THEN nav' = Trim(text) /\ effects' = Bump(effects, Trim(text))
    ELSE nav' = nav /\ effects' = effects

(* C12: a navigate directive, from a /chat/send response or from a history  *)
(* entry, adds no bubble; when its trimmed text differs from the current    *)
(* location the document is told to go to exactly that text, and when it    *)
(* equals the current location nothing is navigated.                        *)
C12_NavigateOnlyElsewhere ==
    [][/\ \A i \in 1..MaxSends :
            (Dispatches(i) /\ sends[i].reply.link /\ postMessage(i)) =>
                /\ bubbles' = bubbles
                /\ timers' = timers
                /\ Navigates(sends[i].reply.text)
       /\ \A i \in 1..MaxPolls :
            (LinkSnapshot(i) /\ pollHistory(i, "ok")) =>
                /\ bubbles' = Visible(polls[i])
                /\ timers' = timers
                /\ Navigates(polls[i][2].text)]_vars

\* the widget is on the page the directive names and has just rendered the
\* history that holds it: nothing was navigated, only the user's bubble shows
C12_Witness ==
    /\ event = "poll: changed"
    /\ href = URL1
    /\ Len(remote) = 2 /\ remote[2].link /\ Trim(remote[2].text) = href
    /\ historySignature = Stringify(remote)
    /\ nav = NONAV
    /\ effects = NoEffects
    /\ bubbles = << Bubble(USERTEXT, "right") >>

\* the report that ends a retry chain
NotFound(selector) == Bubble(<<"[Element not found: ">> \o selector \o <<"]">>, "left")

\* timer i fires and its selector still matches nothing
StillUnmatched(i) ==
    /\ i \in 1..Len(timers)
    /\ querySelector(dom, timers[i].selector) = NULL

(* C13: an activate directive whose selector parses but matches nothing is  *)
(* looked up again after 200 ms, at most 5 times: a chain starts with 5     *)
(* retries left, each firing that still finds nothing uses one up, and the  *)
(* firing that finds none left adds the one '[Element not found: ...]'      *)
(* bubble and ends the chain, which never looks the selector up again.      *)
C13_RetryBudget ==
    [][/\ \A k \in 1..Len(timers') :
            /\ timers'[k].retries \in 0..(DEFAULT_RETRIES - 1)
            /\ timers'[k].delay = 200
       /\ \A i \in 1..MaxSends :
            (Dispatches(i) /\ sends[i].reply.button /\ Trim(sends[i].reply.text) = SEL1
                /\ dom[SEL1] = NULL /\ postMessage(i)) =>
                /\ timers' = Append(timers, [selector |-> SEL1, retries |-> 4, delay |-> 200])
                /\ bubbles' = bubbles
       /\ \A i \in 1..MaxChains :
            (StillUnmatched(i) /\ RetryTimer(i)) =>
                IF timers[i].retries > 0
                THEN /\ timers' = RemoveAt(timers, i)
                                    \o << [timers[i] EXCEPT !.retries = @ - 1] >>
                     /\ bubbles' = bubbles
                ELSE /\ timers' = RemoveAt(timers, i)
                     /\ bubbles' = Append(bubbles, NotFound(timers[i].selector))
                /\ UNCHANGED << nav, effects >>]_vars

\* the fifth retry has just found nothing: the report is the last bubble and
\* no timer is left
C13_Witness ==
    /\ event = "retry"
    /\ dom[SEL1] = NULL
    /\ timers = << >>
    /\ bubbles # << >>
    /\ bubbles[Len(bubbles)] = NotFound(SEL1)

-----------------------------------------------------------------------------
(* The voice pipeline alone: clicks on the audio buttons, the device, the   *)
(* ceiling timer, uploads and playback, with the history poll beside them   *)

\* the reply the backend speaks
Spoken == Msg("assistant", REPLYTEXT, FALSE, FALSE)

NextAudio ==
    \/ toggleAudio
    \/ \E answer \in DeviceAnswers : startRecordingResumes(answer)
    \/ recordTimerFires
    \/ \E r \in 1..MaxStreams : onstop(r)
    \/ \E i \in 1..MaxUploads, speech \in Speeches : BackendAudio(i, TRUE, Spoken, speech)
    \/ \E i \in 1..MaxUploads : BackendAudio(i, FALSE, NoReply, "none")
    \/ \E i \in 1..MaxUploads : sendAudio(i)
    \/ \E i \in 1..MaxUploads : sendAudioFails(i)
    \/ clearPlaying
    \/ PollTick
    \/ \E i \in 1..MaxPolls : pollHistory(i, "ok")

SpecAudio == Init /\ [][NextAudio]_vars

\* the recorders that are recording
Active == { r \in 1..Len(recorders) : recorders[r].phase = "recording" }

(* C15: at most one recorder is recording at any time, however the clicks   *)
(* on the audio buttons, the device's answers, the ceiling timer and the    *)
(* uploads interleave.                                                      *)
C15_OneRecording == Cardinality(Active) <= 1

(* C16: no recorder records past its ceiling: a recorder that is recording  *)
(* is the one mediaRecorder refers to, and the timer armed at its start is  *)
(* pending, so that the timer's firing stops it.                            *)
C16_RecordingHasItsTimer ==
    \A r \in Active : mediaRecorder = r /\ recordTimer = r

\* the capture streams whose tracks have not been stopped
Held == { k \in 1..Len(streams) : streams[k] }

(* C17: a start that the device refuses leaves nothing behind: when it has  *)
(* been handled no recorder is recording, no capture stream is held, no     *)
(* ceiling timer is pending, the recording indicator is off and no bubble   *)
(* has been added.                                                          *)
C17_RefusedStartLeavesNothing ==
    [][startRecordingResumes("denied") =>
          /\ Active' = { }
          /\ Held' = { }
          /\ recordTimer' = 0
          /\ ~recInd'
          /\ bubbles' = bubbles]_vars

(* C18: a click that would start a recording while a reply is being played *)
(* is refused: the device is not asked, no stream or recorder is created,   *)
(* no timer is armed, and the playing indicator stays on.                   *)
C18_NoStartWhilePlaying ==
    [][(playInd /\ ~Recording /\ toggleAudio) =>
          /\ UNCHANGED << pending, streams, recorders, mediaStream, mediaRecorder,
                          recordTimer, recInd, uploads, speakers >>
          /\ playInd']_vars

\* a click has just been refused while the reply of an earlier clip is played
C18_Witness ==
    /\ event = "record: playing"
    /\ playInd
    /\ speakers = 1
    /\ pending = 0
    /\ Active = { }
    /\ Len(recorders) = 1

(* C19: when the clip of a recorder is uploaded, the capture stream of that *)
(* recorder has been released: the tracks are stopped before the request    *)
(* goes out, whatever becomes of the request.                               *)
C19_UploadedClipReleased ==
    \A i \in 1..Len(uploads) : recorders[uploads[i].clip].stream \notin Held

\* the response i carries a synthesized reply
SpeechArrives(i) ==
    /\ i \in 1..Len(uploads)
    /\ uploads[i].phase = "answered"
    /\ uploads[i].ok

\* the voice pipeline, where an Audio element that plays comes to its end or
\* is paused
SpecAudioFair == Init /\ [][NextAudio]_vars /\ WF_vars(clearPlaying)

(* C20: a /chat/audio response that carries synthesized audio turns the     *)
(* playing indicator on when audio.play() resolves; the indicator is always *)
(* turned off again, by the end or the pause of the playback; and when      *)
(* audio.play() rejects the indicator is off at once, so that a recording   *)
(* or a submit can follow.                                                  *)
C20_PlayingEnds ==
    /\ [][\A i \in 1..MaxUploads :
            (SpeechArrives(i) /\ sendAudio(i)) =>
                /\ uploads[i].speech = "plays" => (playInd' /\ speakers' = speakers + 1)
                /\ uploads[i].speech = "fails" => (~playInd' /\ speakers' = speakers)]_vars
    /\ (playInd ~> ~playInd)

\* the spoken reply has just come to its end: nothing is playing
C20_Witness ==
    /\ event = "audio: played"
    /\ ~playInd
    /\ speakers = 0
    /\ bubbles = << Bubble(TRANSCRIPT, "right"), Bubble(REPLYTEXT, "left") >>

\* the report of a selector that does not parse
BadSel(selector) == Bubble(<<"[Bad selector: ">> \o selector \o <<"]">>, "left")

\* m is an activate directive whose selector does not parse
IsBadActivate(m) ==
    m.role = "assistant" /\ m.button /\ ~m.link /\ SelectorThrows(Trim(m.text))

\* the /chat/history response i carries a new snapshot: a user's message and
\* then an activate directive whose selector does not parse
BadSelSnapshot(i) ==
    /\ ChangedSnapshot(i)
    /\ Len(polls[i]) = 2
    /\ polls[i][1].role = "user"
    /\ IsBadActivate(polls[i][2])

(* C14: an activate directive whose selector does not parse adds the one    *)
(* bubble '[Bad selector: ...]' in the step that dispatches it and starts   *)
(* no retry, and its caller goes on as after any reply: the send handler,   *)
(* the audio handler and the history render all complete.                   *)
C14_BadSelectorReportedOnce ==
    [][/\ \A i \in 1..MaxSends :
            (Dispatches(i) /\ IsBadActivate(sends[i].reply) /\ postMessage(i)) =>
                /\ bubbles' = Append(bubbles, BadSel(Trim(sends[i].reply.text)))
                /\ UNCHANGED << timers, nav, effects >>
                /\ event' = "send: reply"
                /\ ~awaitingReply'
       /\ \A i \in 1..MaxUploads :
            (SpeechArrives(i) /\ IsBadActivate(uploads[i].reply) /\ sendAudio(i)) =>
                /\ bubbles' = bubbles \o << Bubble(uploads[i].transcript, "right"),
                                            BadSel(Trim(uploads[i].reply.text)) >>
                /\ UNCHANGED << timers, nav, effects >>
                /\ event' = "audio: reply"
                /\ uploads[i].speech = "plays" => playInd'
       /\ \A i \in 1..MaxPolls :
            (BadSelSnapshot(i) /\ pollHistory(i, "ok")) =>
                /\ bubbles' = << Bubble(polls[i][1].text, "right"),
                                 BadSel(Trim(polls[i][2].text)) >>
                /\ UNCHANGED << timers, nav, effects >>
                /\ event' = "poll: changed"
                /\ historySignature' = Stringify(polls[i])]_vars

\* the history that holds the directive has just been rendered after a clip:
\* what was heard and the one report, and no timer
C14_Witness ==
    /\ event = "poll: changed"
    /\ bubbles = << Bubble(TRANSCRIPT, "right"), BadSel(BADSEL) >>
    /\ timers = << >>
    /\ effects = NoEffects
    /\ historySignature = Stringify(remote)

-----------------------------------------------------------------------------
\* the clips of which a /chat/audio request is out
Clips(list) == { list[k].clip : k \in 1..Len(list) }

(* C21: when the /chat/audio request of a clip fails in transport, the      *)
(* failure is handled in one step after which the pipeline is idle: the     *)
(* recording indicator is off and nothing is playing; no bubble is added,   *)
(* nothing is dispatched, and no request for that clip is out any more.     *)
C21_FailedUploadReturnsToIdle ==
    [][\A i \in 1..MaxUploads :
          (i \in 1..Len(uploads) /\ sendAudioFails(i)) =>
              /\ ~recInd' /\ ~playInd'
              /\ UNCHANGED << bubbles, nav, timers, effects >>
              /\ uploads[i].clip \notin Clips(uploads')
              /\ event' = "audio: failed"]_vars

-----------------------------------------------------------------------------
\* the ways a /chat/history request fails in transport: the status is not
\* 2xx, or fetch rejects or the body is not JSON
TransportFailures == { "status", "throws" }

(* C22: a history poll that fails in transport (the backend unreachable, a  *)
(* non-2xx status, a body that does not parse) shows the connection as      *)
(* offline and leaves the visible list, the remembered signature and the    *)
(* gate (awaitingReply, the input, the send button) as they were; nothing   *)
(* is dispatched and no request is dropped.                                 *)
C22_FailedPollOnlyMarksOffline ==
    [][\A i \in 1..MaxPolls, outcome \in TransportFailures :
          (i \in 1..Len(polls) /\ pollHistory(i, outcome)) =>
              /\ conn' = "Offline"
              /\ UNCHANGED << bubbles, nav, timers, effects, historySignature,
                              awaitingReply, inputDisabled, sendDisabled, sends >>]_vars

\* a poll has just failed after a snapshot had been rendered and a message
\* submitted: the list, the signature and the held gate are all still there
C22_Witness ==
    /\ event = "poll: offline"
    /\ conn = "Offline"
    /\ historySignature # EMPTY
    /\ awaitingReply /\ inputDisabled /\ sendDisabled
    /\ Len(bubbles) = 2
    /\ bubbles[2] = Bubble(USERTEXT, "right")

-----------------------------------------------------------------------------
(* The poll loop among failures: polls that fail or are refused, sends that *)
(* fail or are refused, a device that refuses, uploads that fail, and       *)
(* activate directives whose selector does not parse or matches nothing.    *)
(* The interval timer keeps firing and every /chat/history request settles, *)
(* one way or another.                                                      *)

\* the replies that the dispatcher cannot resolve
Unresolved == { Msg("assistant", SEL1, FALSE, TRUE), Msg("assistant", BADSEL, FALSE, TRUE) }

InitLoop == Loaded({ NULL }, { << >> })

\* the user does one thing at a time: a message is submitted, or a recording
\* started, only when no request, device answer or retry is outstanding
Quiet ==
    /\ sends = << >>
    /\ uploads = << >>
    /\ timers = << >>
    /\ pending = 0
    /\ \A r \in 1..Len(recorders) : recorders[r].phase = "stopped"

NextLoop ==
    \/ \E value \in { USERTEXT } : Quiet /\ Submit(value)
    \/ \E i \in 1..MaxSends, reply \in Unresolved : BackendSend(i, TRUE, reply)
    \/ \E i \in 1..MaxSends : BackendSend(i, FALSE, NoReply)
    \/ \E i \in 1..MaxSends : postMessage(i)
    \/ \E i \in 1..MaxSends : postMessageFails(i)
    \/ (Quiet \/ Recording) /\ toggleAudio
    \/ \E answer \in DeviceAnswers : startRecordingResumes(answer)
    \/ recordTimerFires
    \/ \E r \in 1..MaxStreams : onstop(r)
    \/ \E i \in 1..MaxUploads : BackendAudio(i, FALSE, NoReply, "none")
    \/ \E i \in 1..MaxUploads : sendAudio(i)
    \/ \E i \in 1..MaxUploads : sendAudioFails(i)
    \/ \E i \in 1..MaxChains : RetryTimer(i)
    \/ PollTick
    \/ \E i \in 1..MaxPolls, outcome \in PollOutcomes : pollHistory(i, outcome)

SpecLoop ==
    /\ InitLoop
    /\ [][NextLoop]_vars
    /\ WF_vars(PollTick)
    /\ WF_vars(\E i \in 1..MaxPolls, outcome \in PollOutcomes : pollHistory(i, outcome))

(* C23: no failure ends the poll loop: whatever polls fail or are refused,  *)
(* whatever sends and uploads fail, whatever the device refuses and         *)
(* whatever directive cannot be resolved, the interval timer issues a new   *)
(* /chat/history request again and again.                                   *)
C23_PollLoopNeverStops == []<><<PollTick>>_vars

\* a new /chat/history request is out after the poll before it failed, with
\* the report of an unmatched selector in the list
C23_Witness ==
    /\ conn = "Offline"
    /\ polls # << >>
    /\ event = "poll: offline"
    /\ bubbles # << >>
    /\ bubbles[Len(bubbles)] = NotFound(SEL1)

-----------------------------------------------------------------------------
(* C24, as the spec has it: after a render the visible list is exactly the  *)
(* snapshot's entries that are not directives, in the snapshot's order,     *)
(* the user's on the right and the assistant's on the left.                 *)
C24_RenderShowsSnapshotOnly ==
    [][\A i \in 1..MaxPolls :
          (ChangedSnapshot(i) /\ pollHistory(i, "ok")) => bubbles' = Visible(polls[i])]_vars

\* the report of a click that threw
CouldNotClick(selector) == Bubble(<<"[Could not click: ">> \o selector \o <<"]">>, "left")

\* what the dispatcher may add to the list while the render is under way
RenderReports(selector) == { BadSel(selector), Clicked(selector), CouldNotClick(selector) }

RECURSIVE Rebuilt(_, _)
\* list is the snapshot messages rendered: each entry that is text to show
\* is one bubble, on the side of its role; a navigate directive is nothing;
\* an activate directive is nothing or the one report of the dispatcher
Rebuilt(messages, list) ==
    IF messages = << >> THEN list = << >>
    ELSE LET m == Head(messages)
             rest == Tail(messages)
         IN IF m.text = EMPTY \/ (IsDirective(m) /\ m.link)
            THEN Rebuilt(rest, list)
            ELSE IF IsDirective(m)
            THEN \/ Rebuilt(rest, list)
                 \/ /\ list # << >>
                    /\ Head(list) \in RenderReports(Trim(m.text))
                    /\ Rebuilt(rest, Tail(list))
            ELSE /\ list # << >>
                 /\ Head(list) = Bubble(m.text, IF m.role = "user" THEN "right" ELSE "left")
                 /\ Rebuilt(rest, Tail(list))

(* C24, amended: a render clears the visible list and rebuilds it from the  *)
(* snapshot alone, in the snapshot's order: an entry that is not a          *)
(* directive is one bubble, the user's on the right and the assistant's on  *)
(* the left; a directive is handed to the dispatcher and its text is never  *)
(* shown, but the dispatcher's own bracketed report of an activate          *)
(* directive ('[Clicked ...]', '[Could not click: ...]', '[Bad selector:    *)
(* ...]') is added at the directive's place; nothing that was in the list   *)
(* before the render, the optimistic bubble included, is left.              *)
C24_RenderRebuildsFromSnapshot ==
    [][\A i \in 1..MaxPolls :
          (ChangedSnapshot(i) /\ pollHistory(i, "ok")) =>
              /\ Rebuilt(polls[i], bubbles')
              /\ Shown(bubbles') = Visible(polls[i])]_vars

\* a snapshot has just been rendered while the request of a second message
\* is out: the list is the snapshot's two entries, and the optimistic
\* bubble of the second message is gone
C24_Witness ==
    /\ event = "poll: changed"
    /\ \E k \in 1..Len(sends) : sends[k].phase = "sent"
    /\ Len(remote) = 2
    /\ historySignature = Stringify(remote)
    /\ bubbles = << Bubble(USERTEXT, "right"), Bubble(REPLYTEXT, "left") >>

-----------------------------------------------------------------------------
(* C25: at most one /chat/send request is out at any time, however the      *)
(* submits, the /chat/send responses and the /chat/history responses        *)
(* interleave.                                                              *)
C25_OneSendInFlight == Len(sends) <= 1

-----------------------------------------------------------------------------
(* C26: while the /chat/audio request of a recorded clip is out, no new     *)
(* recording is started: the device is not asked and no recorder begins to  *)
(* record.                                                                  *)
C26_NoStartDuringUpload ==
    [][uploads # << >> => (pending' <= pending /\ Active' \subseteq Active)]_vars

-----------------------------------------------------------------------------
(* Slow responses: a /chat/history request may still be out when the        *)
(* interval fires again, and the responses may arrive in either order,      *)
(* while other clients of the backend add to the history                    *)

NextRace ==
    \/ PollTickWithin(MaxRace)
    \/ \E i \in 1..MaxRace : pollHistory(i, "ok")
    \/ \E m \in { UserMsg(USERTEXT), Spoken } : BackendAppend(m)

SpecRace == Init /\ [][NextRace]_vars

(* C27: every /chat/history response is applied when it arrives, whatever   *)
(* was requested or applied before it: after it the remembered signature is *)
(* its snapshot's serialized form and the visible list is its snapshot, so  *)
(* that of two requests out at once the response that arrives last decides  *)
(* both, also when it was requested first and holds the older snapshot.     *)
C27_LastArrivalWins ==
    [][\A i \in 1..MaxRace :
          (i \in 1..Len(polls) /\ pollHistory(i, "ok")) =>
              /\ historySignature' = Stringify(polls[i])
              /\ bubbles' = Visible(polls[i])
              /\ polls' = RemoveAt(polls, i)]_vars

\* the response of the later request has just arrived first and has been
\* applied: the list and the signature are the history of two entries,
\* while the earlier request, whose snapshot is older, is still out
C27_Witness ==
    /\ event = "poll: changed"
    /\ Len(remote) = 2
    /\ historySignature = Stringify(remote)
    /\ bubbles = Visible(remote)
    /\ Len(polls) = 1
    /\ Len(polls[1]) < Len(remote)

-----------------------------------------------------------------------------
(* C28, as the spec has it: a /chat/history response that is well formed    *)
(* but has ok:false, or whose messages are not a list, changes nothing: the *)
(* visible list, the remembered signature, the gate and the connection      *)
(* status stay as they were.                                                *)
C28_RefusedPollChangesNothing ==
    [][\A i \in 1..MaxPolls :
          (i \in 1..Len(polls) /\ pollHistory(i, "refused")) =>
              UNCHANGED << bubbles, historySignature, awaitingReply, inputDisabled,
                           sendDisabled, conn >>]_vars

(* C28, amended: such a response leaves the visible list, the remembered    *)
(* signature and the gate as they were and dispatches nothing, and it shows *)
(* the connection as connected, whatever the status was before: the         *)
(* response did arrive.                                                     *)
C28_RefusedPollOnlyMarksConnected ==
    [][\A i \in 1..MaxPolls :
          (i \in 1..Len(polls) /\ pollHistory(i, "refused")) =>
              /\ UNCHANGED << bubbles, nav, timers, effects, historySignature,
                              awaitingReply, inputDisabled, sendDisabled, sends >>
              /\ conn' = "Connected"]_vars

\* the first response after the load was a refusal, and it arrived after a
\* submit: the status is connected, no snapshot has been remembered, and
\* the optimistic bubble and the held gate are still there
C28_Witness ==
    /\ event = "poll: refused"
    /\ conn = "Connected"
    /\ historySignature = EMPTY
    /\ awaitingReply /\ inputDisabled /\ sendDisabled
    /\ bubbles = << Bubble(USERTEXT, "right") >>

-----------------------------------------------------------------------------
\* the URL the host page gives each element: the link's own target, the
\* target of the link around the span, the card's data-href; none otherwise
UrlOf(el) ==
    IF el = ANCHOR_EL THEN URL1
    ELSE IF el \in { SPAN_EL, CARD_EL } THEN URL2
    ELSE EMPTY

\* the response i carries an activate directive whose selector matches el
Activates(i, el) ==
    /\ Dispatches(i)
    /\ sends[i].reply.button /\ ~sends[i].reply.link
    /\ Trim(sends[i].reply.text) = SEL1
    /\ dom[SEL1] = el

\* timer i fires and its selector now matches el
RetryFinds(i, el) ==
    /\ i \in 1..Len(timers)
    /\ timers[i].selector = SEL1
    /\ dom[SEL1] = el

\* the /chat/history response i carries a new snapshot: a user's message and
\* then an activate directive whose selector matches el
ActivateSnapshot(i, el) ==
    /\ ChangedSnapshot(i)
    /\ Len(polls[i]) = 2
    /\ polls[i][1] = UserMsg(USERTEXT)
    /\ polls[i][2] = Msg("assistant", SEL1, FALSE, TRUE)
    /\ dom[SEL1] = el

(* C29, as the spec has it: an activate directive whose element yields a    *)
(* URL makes the document navigate to that URL, without a click and without *)
(* a bubble, from a /chat/send response as from a rendered history.         *)
C29_UrlElementNavigates ==
    [][\A el \in Elements \ { NULL } :
          UrlOf(el) # EMPTY =>
              /\ \A i \in 1..MaxSends :
                    (Activates(i, el) /\ postMessage(i)) =>
                        (nav' = UrlOf(el) /\ bubbles' = bubbles)
              /\ \A i \in 1..MaxPolls :
                    (ActivateSnapshot(i, el) /\ pollHistory(i, "ok")) =>
                        (nav' = UrlOf(el) /\ bubbles' = << Bubble(USERTEXT, "right") >>)]_vars

\* what the dispatcher does with the element that the selector matches,
\* where list is the visible list and rest the timers it finds
Activated(el, list, rest) ==
    IF UrlOf(el) # EMPTY
    THEN /\ bubbles' = list
         /\ timers' = rest
         /\ IF UrlOf(el) # href
            THEN nav' = UrlOf(el) /\ effects' = Bump(effects, SEL1)
            ELSE UNCHANGED << nav, effects >>
    ELSE /\ nav' = nav
         /\ timers' = rest
         /\ IF el = SVG_EL
            THEN /\ bubbles' = Append(list, CouldNotClick(SEL1))
                 /\ effects' = effects
            ELSE /\ bubbles' = Append(list, Clicked(SEL1))
                 /\ effects' = Bump(effects, SEL1)

(* C29, amended: when the selector of an activate directive matches an      *)
(* element that yields a URL (the link's own target, the target of a link   *)
(* around it, or the first of data-url, data-href and href that holds an    *)
(* http(s) URL), the dispatcher adds no bubble and clicks nothing, and it   *)
(* tells the document to go to that URL unless the document is there        *)
(* already, in which case it does nothing.  Only when no URL is yielded is  *)
(* the element clicked, and then one bracketed bubble reports the click or  *)
(* its failure.  This holds for a directive of a /chat/send response, of a  *)
(* rendered history, and when a retry finds the element.                    *)
C29_UrlBeforeClick ==
    [][\A el \in Elements \ { NULL } :
          /\ \A i \in 1..MaxSends :
                (Activates(i, el) /\ postMessage(i)) => Activated(el, bubbles, timers)
          /\ \A i \in 1..MaxPolls :
                (ActivateSnapshot(i, el) /\ pollHistory(i, "ok")) =>
                    Activated(el, << Bubble(USERTEXT, "right") >>, timers)
          /\ \A i \in 1..MaxChains :
                (RetryFinds(i, el) /\ RetryTimer(i)) =>
                    Activated(el, bubbles, RemoveAt(timers, i))]_vars

\* the directive has just been dispatched on a page whose element has a
\* relative data-url and an absolute data-href: the document is going to
\* the latter, and no bubble was added under the user's
C29_Witness ==
    /\ event = "send: reply"
    /\ dom[SEL1] = CARD_EL
    /\ nav = URL2
    /\ effects[SEL1] = 1
    /\ bubbles = << Bubble(USERTEXT, "right") >>

-----------------------------------------------------------------------------
(* Retry chains: the widget loads on a page where the selector matches      *)
(* nothing, with a history that holds activate directives; each render      *)
(* starts one chain per directive, the element may appear at any time, and  *)
(* a timer that is pending does fire.                                       *)

ChainEntries == { UserMsg(USERTEXT), Msg("assistant", SEL1, FALSE, TRUE) }

\* the histories of at most MaxHist of these entries
ChainHistories ==
    UNION { [1..n -> ChainEntries] : n \in 0..MaxHist }

InitChains == Loaded({ NULL }, ChainHistories)

NextChains ==
    \/ PollTick
    \/ \E i \in 1..MaxPolls : pollHistory(i, "ok")
    \/ \E i \in 1..MaxChains : RetryTimer(i)
    \/ \E el \in Elements : ElementAppears(el)
    \/ \E el \in Elements : PageLoad(el)

SpecChains ==
    /\ InitChains
    /\ [][NextChains]_vars
    /\ WF_vars(\E i \in 1..MaxChains : RetryTimer(i))

\* the firing of timer i leaves its chain pending: nothing was found and an
\* attempt is left, which the firing uses up; the other chains are as before
Continues(i) ==
    /\ dom[timers[i].selector] = NULL
    /\ timers[i].retries > 0
    /\ timers' = RemoveAt(timers, i) \o << [timers[i] EXCEPT !.retries = @ - 1] >>
    /\ UNCHANGED << bubbles, nav, effects >>

\* the firing of timer i ends its chain with a navigation, with the report
\* of a click, or with the report that nothing was found on the last attempt
Ends(i) ==
    /\ timers' = RemoveAt(timers, i)
    /\ \/ /\ UrlOf(dom[SEL1]) # EMPTY
          /\ nav' = UrlOf(dom[SEL1]) /\ SideEffect /\ bubbles' = bubbles
       \/ /\ dom[SEL1] # NULL /\ UrlOf(dom[SEL1]) = EMPTY
          /\ bubbles' \in { Append(bubbles, Clicked(SEL1)),
                            Append(bubbles, CouldNotClick(SEL1)) }
          /\ nav' = nav
       \/ /\ dom[SEL1] = NULL /\ timers[i].retries = 0
          /\ bubbles' = Append(bubbles, NotFound(SEL1))
          /\ UNCHANGED << nav, effects >>

(* C30, as the spec has it: every firing of a retry timer either leaves its *)
(* chain pending with one attempt less, or ends it with a navigation, a     *)
(* report of the click or the report that nothing was found; the other      *)
(* chains keep their counters.                                              *)
C30_ChainEndsWithOutcome ==
    [][\A i \in 1..MaxChains :
          (i \in 1..Len(timers) /\ RetryTimer(i)) => (Continues(i) \/ Ends(i))]_vars

\* the firing of timer i ends its chain without a trace: the element that
\* has appeared yields the URL of the page the document is on
EndsSilently(i) ==
    /\ timers' = RemoveAt(timers, i)
    /\ UrlOf(dom[SEL1]) = href
    /\ UNCHANGED << bubbles, nav, effects >>

(* C30, amended: every retry chain ends, after at most DEFAULT_RETRIES + 1  *)
(* firings of its timer: a firing either leaves the chain pending with one  *)
(* attempt less, or ends it, on the first match or when no attempt is left, *)
(* with a navigation, a report of the click, the report that nothing was    *)
(* found, or with nothing at all when the matched element yields the URL of *)
(* the current page.  Chains that are pending together count their attempts *)
(* separately: a firing changes no other chain.                             *)
C30_ChainsTerminate ==
    /\ [][\A i \in 1..MaxChains :
            (i \in 1..Len(timers) /\ RetryTimer(i)) =>
                /\ timers[i].retries \in 0..(DEFAULT_RETRIES - 1)
                /\ Continues(i) \/ Ends(i) \/ EndsSilently(i)]_vars
    /\ (timers # << >> ~> timers = << >>)

\* two chains are pending with different counts of attempts left
C30_Witness ==
    /\ event = "retry"
    /\ Len(timers) = 2
    /\ timers[1].retries = 4
    /\ timers[2].retries = 0
    /\ bubbles = << >>

-----------------------------------------------------------------------------
(* C31: a manual stop clears the ceiling timer, a start that begins to      *)
(* record puts the timer of its own recorder in the place of any timer that *)
(* is pending, and the timer that fires stops no recorder but the one whose *)
(* start armed it: no recording is cut short by the timer of an earlier one.*)
C31_TimerStopsOwnRecording ==
    [][/\ (Recording /\ toggleAudio) => recordTimer' = 0
       /\ startRecordingResumes("granted") =>
              (recordTimer' = Len(recorders) + 1 /\ mediaRecorder' = Len(recorders) + 1)
       /\ recordTimerFires =>
              \A r \in 1..Len(recorders) :
                  recorders'[r] # recorders[r] => r = recordTimer]_vars

\* a second start has just begun to record while the first recorder was
\* still recording: the timer that is pending is the second recorder's
C31_Witness ==
    /\ event = "record: started"
    /\ Active = { 1, 2 }
    /\ mediaRecorder = 2
    /\ recordTimer = 2

-----------------------------------------------------------------------------
\* the voice pipeline where what is pending does happen: the ceiling timer
\* fires, a queued stop event is handled, a /chat/audio request settles
SpecAudioLive ==
    /\ Init
    /\ [][NextAudio]_vars
    /\ WF_vars(recordTimerFires)
    /\ WF_vars(\E r \in 1..MaxStreams : onstop(r))
    /\ WF_vars(\E i \in 1..MaxUploads : sendAudio(i) \/ sendAudioFails(i))

(* C32: every capture stream that the device hands out is released in the   *)
(* end: its tracks are stopped after its recording, and also when the       *)
(* recorder cannot be constructed and when two starts overlap.              *)
C32_StreamsReleased ==
    \A k \in 1..MaxStreams : (k \in Held) ~> (k \notin Held)

-----------------------------------------------------------------------------
(* C33: the blob that is uploaded when a recorder stops is made of the      *)
(* fragments of that recorder and of no other: none of another recording is *)
(* in it and none of its own is missing.                                    *)
C33_BlobIsOwnFragments ==
    \A i \in 1..Len(uploads) : uploads[i].blob = << uploads[i].clip >>

-----------------------------------------------------------------------------
(* C34: a submit made while the recording indicator or the playing          *)
(* indicator is on an audio button is ignored: no bubble is added, no       *)
(* /chat/send request goes out, nothing is dispatched and the gate stays as *)
(* it was.                                                                  *)
C34_SubmitIgnoredWhileAudioBusy ==
    [][\A value \in InputTexts :
          ((recInd \/ playInd) /\ Submit(value)) =>
              UNCHANGED << sends, bubbles, nav, timers, effects, awaitingReply,
                           inputDisabled, sendDisabled >>]_vars

\* a submit has just been ignored while a recorder is recording: the gate
\* is clear and nothing was sent or shown
C34_Witness ==
    /\ event = "submit: audio busy"
    /\ recInd
    /\ Active # { }
    /\ ~awaitingReply /\ ~inputDisabled /\ ~sendDisabled
    /\ sends = << >>
    /\ bubbles = << >>

-----------------------------------------------------------------------------
(* C35: whenever a recorder is recording, the recording indicator is on the *)
(* audio buttons, so that a submit is ignored; the settling of an earlier   *)
(* clip's upload does not take the indicator off a recording that began in  *)
(* the meantime.                                                            *)
C35_RecordingShowsIndicator == Active # { } => recInd

-----------------------------------------------------------------------------
(* C36: the pipeline never records and plays at once: no recorder is        *)
(* recording while the playing indicator is on, and no reply begins to play *)
(* while a recorder is recording.                                           *)
C36_NeverRecordingAndPlaying == ~(Active # { } /\ playInd)

-----------------------------------------------------------------------------
(* C37: in every state the input and the send button are disabled exactly   *)
(* when awaitingReply is true: whatever sets or clears the flag sets or     *)
(* clears the other two with it.                                            *)
C37_GateMovesTogether ==
    /\ inputDisabled = awaitingReply
    /\ sendDisabled = awaitingReply

\* the gate has been set, cleared by a poll and set again: a second request
\* has just gone out and all three are set
C37_Witness ==
    /\ event = "submit: sent"
    /\ Len(sends) = 2
    /\ awaitingReply /\ inputDisabled /\ sendDisabled

-----------------------------------------------------------------------------
\* the chat where every /chat/send request settles: its response arrives and
\* is parsed, or fetch or response.json() rejects
SpecSettles ==
    /\ Init
    /\ [][Next]_vars
    /\ WF_vars(\E i \in 1..MaxSends : postMessage(i) \/ postMessageFails(i))

(* C38: when the /chat/send request of a submit settles, with a reply, with *)
(* an ok:false body or with a failure of fetch or of the parsing, the gate  *)
(* is cleared in that step: awaitingReply is false and the input and the    *)
(* send button are enabled; so a gate that is set is always cleared again.  *)
C38_SettledSendClearsGate ==
    /\ [][\A i \in 1..MaxSends :
            (i \in 1..Len(sends) /\ (postMessage(i) \/ postMessageFails(i))) =>
                /\ ~awaitingReply' /\ ~inputDisabled' /\ ~sendDisabled'
                /\ sends' = RemoveAt(sends, i)]_vars
    /\ (inputDisabled ~> ~inputDisabled)

\* fetch has just rejected for the only request out: the optimistic bubble
\* stands alone and the input is enabled again
C38_Witness ==
    /\ event = "send: failed"
    /\ sends = << >>
    /\ bubbles = << Bubble(USERTEXT, "right") >>
    /\ ~awaitingReply /\ ~inputDisabled /\ ~sendDisabled

====
